---- MODULE Spec2Model ----
(***************************************************************************)
(* OCI / OKE resource detection: the metadata providers                    *)
(* (internal/metadataproviders/oci, .../oci/oke) and the detectors built   *)
(* on them (processor/resourcedetectionprocessor/internal/oci, .../oke).   *)
(*                                                                         *)
(* Representation.  A Go string is a TLA+ string.  A reply body that is    *)
(* JSON text is represented by the JSON value it denotes (JNull, JStr,     *)
(* JNum, JBool, JArr, JObj); text that is not JSON is NotJSON.  An object  *)
(* is a function from member names to values; the bodies used here never   *)
(* hold two members whose names differ only in case.  A Go nil pointer is  *)
(* Nil, a nil error is NoError.  A Go panic is the outcome "panicked".     *)
(***************************************************************************)
EXTENDS Integers, Sequences, FiniteSets, TLC

Nil == [nil |-> TRUE]

\* A Go error: what failed, and the text it carries.  NoError is nil.
NoError == [kind |-> "nil", detail |-> ""]
Errorf(kind, detail) == [kind |-> kind, detail |-> detail]

(***************************************************************************)
(* Strings.  TLA+ strings are atomic, so the operations that look inside a *)
(* string (prefix test, slicing, splitting, concatenation) work on its     *)
(* characters: chars gives the characters of each string those operations  *)
(* meet in this model, str is its inverse.                                 *)
(***************************************************************************)
chars ==
    ("" :> <<>>)
      @@ ("opc-tenant:" :> <<"o", "p", "c", "-", "t", "e", "n", "a", "n", "t", ":">>)
      @@ ("opc-tenant:tenantId" :> <<"o", "p", "c", "-", "t", "e", "n", "a", "n", "t", ":", "t", "e", "n", "a", "n", "t", "I", "d">>)
      @@ ("tenantId" :> <<"t", "e", "n", "a", "n", "t", "I", "d">>)
      @@ ("opc-tenant:t2" :> <<"o", "p", "c", "-", "t", "e", "n", "a", "n", "t", ":", "t", "2">>)
      @@ ("t2" :> <<"t", "2">>)
      @@ ("opc-tenant" :> <<"o", "p", "c", "-", "t", "e", "n", "a", "n", "t">>)
      @@ ("Oracle" :> <<"O", "r", "a", "c", "l", "e">>)
      @@ ("a.b" :> <<"a", ".", "b">>)
      @@ ("a.c" :> <<"a", ".", "c">>)
      @@ ("a.z" :> <<"a", ".", "z">>)
      @@ ("a" :> <<"a">>)
      @@ ("b" :> <<"b">>)
      @@ ("c" :> <<"c">>)
      @@ ("z" :> <<"z">>)
      @@ ("x" :> <<"x">>)
      @@ ("y" :> <<"y">>)
      @@ ("shape" :> <<"s", "h", "a", "p", "e">>)
      @@ ("oci." :> <<"o", "c", "i", ".">>)
      @@ ("oci.x" :> <<"o", "c", "i", ".", "x">>)
      @@ ("oci.y" :> <<"o", "c", "i", ".", "y">>)
      @@ ("oci.shape" :> <<"o", "c", "i", ".", "s", "h", "a", "p", "e">>)

str(cs) == CHOOSE s \in DOMAIN chars : chars[s] = cs

\* strings.HasPrefix(s, prefix)
HasPrefix(s, prefix) ==
    /\ Len(chars[s]) >= Len(chars[prefix])
    /\ SubSeq(chars[s], 1, Len(chars[prefix])) = chars[prefix]

\* s[n:]
sliceFrom(s, n) == str(SubSeq(chars[s], n + 1, Len(chars[s])))

\* a + b
concat(a, b) == str(chars[a] \o chars[b])

(***************************************************************************)
(* JSON values                                                             *)
(***************************************************************************)
NotJSON == [t |-> "invalid"]
JNull == [t |-> "null"]
JStr(s) == [t |-> "string", s |-> s]
JNum(n, frac) == [t |-> "number", n |-> n, frac |-> frac]
JBool(b) == [t |-> "bool", b |-> b]
JArr(a) == [t |-> "array", a |-> a]
JObj(m) == [t |-> "object", m |-> m]
EmptyObj == JObj(<<>>)

(***************************************************************************)
(* encoding/json matches an object member to a struct field by the field's *)
(* JSON name, preferring an exact match and accepting a case-insensitive   *)
(* one.  foldKey lower-cases the member names that occur in this model.    *)
(***************************************************************************)
foldKey(k) ==
    CASE k = "TenantId" -> "tenantid"
      [] k = "TENANTID" -> "tenantid"
      [] k = "availabilityDomain" -> "availabilitydomain"
      [] k = "faultDomain" -> "faultdomain"
      [] k = "compartmentId" -> "compartmentid"
      [] k = "displayName" -> "displayname"
      [] k = "Region" -> "region"
      [] k = "canonicalRegionName" -> "canonicalregionname"
      [] k = "ociAdName" -> "ociadname"
      [] k = "shapeConfig" -> "shapeconfig"
      [] k = "memoryInGBs" -> "memoryingbs"
      [] k = "networkingBandwidthInGbps" -> "networkingbandwidthingbps"
      [] k = "maxVnicAttachments" -> "maxvnicattachments"
      [] OTHER -> k

\* The member of object m that decodes into the field named jsonName, or Nil.
fieldMember(m, jsonName) ==
    LET ks == {k \in DOMAIN m : foldKey(k) = foldKey(jsonName)}
    IN  IF ks = {} THEN Nil
        ELSE IF jsonName \in ks THEN m[jsonName]
        ELSE m[CHOOSE k \in ks : TRUE]

\* Decoding one member into a string field whose current value is old.
\* A JSON null leaves the field alone; any other non-string value is an
\* UnmarshalTypeError, which leaves the field alone and fails the decode.
decodeString(m, jsonName, old) ==
    LET x == fieldMember(m, jsonName)
    IN  IF x = Nil THEN [v |-> old, err |-> FALSE]
        ELSE IF x.t = "string" THEN [v |-> x.s, err |-> FALSE]
        ELSE IF x.t = "null" THEN [v |-> old, err |-> FALSE]
        ELSE [v |-> old, err |-> TRUE]

\* A float32 field takes any JSON number (the numbers here are in range).
NumZero == [n |-> 0, frac |-> FALSE]
decodeFloat32(m, jsonName, old) ==
    LET x == fieldMember(m, jsonName)
    IN  IF x = Nil THEN [v |-> old, err |-> FALSE]
        ELSE IF x.t = "number" THEN [v |-> [n |-> x.n, frac |-> x.frac], err |-> FALSE]
        ELSE IF x.t = "null" THEN [v |-> old, err |-> FALSE]
        ELSE [v |-> old, err |-> TRUE]

\* An int field takes a JSON number without a fraction only.
decodeInt(m, jsonName, old) ==
    LET x == fieldMember(m, jsonName)
    IN  IF x = Nil THEN [v |-> old, err |-> FALSE]
        ELSE IF x.t = "number" /\ ~x.frac THEN [v |-> x.n, err |-> FALSE]
        ELSE IF x.t = "null" THEN [v |-> old, err |-> FALSE]
        ELSE [v |-> old, err |-> TRUE]

(***************************************************************************)
(* The response structs                                                    *)
(***************************************************************************)
ZeroShapeConfig ==
    [OCpus |-> NumZero, MemoryInGBs |-> NumZero,
     NetworkingBandwidthInGbps |-> NumZero, MaxVnicAttachments |-> 0]

\* Go field name |-> JSON member name of the string fields shared by both
\* response structs.
CommonJSONNames ==
    [AvailabilityDomain |-> "availabilityDomain", FaultDomain |-> "faultDomain",
     CompartmentId |-> "compartmentId", DisplayName |-> "displayName",
     Hostname |-> "hostname", Id |-> "id", Image |-> "image", Region |-> "region",
     CanonicalRegionName |-> "canonicalRegionName", OciAdName |-> "ociAdName",
     Shape |-> "shape"]

\* OciMetadataReponse: TenantId carries no tag, so its JSON name is the
\* field name.
OciJSONNames == [TenantId |-> "TenantId"] @@ CommonJSONNames

OkeMetadataJSONNames ==
    [OkeTm |-> "oke-tm", OkeK8Version |-> "oke-k8version", OkePoolId |-> "oke-pool-id",
     OkeTenancyId |-> "oke-tenancy-id",
     OkeClusterDisplayName |-> "oke-cluster-display-name",
     OkeAvailabilityDomain |-> "oke-ad", OkeClusterId |-> "oke-cluster-id",
     OkePrivateSubnet |-> "oke-is-on-private-subnet", OkeImageName |-> "oke-image-name"]

ZeroOkeMetadata == [f \in DOMAIN OkeMetadataJSONNames |-> ""]

\* RawResponse is read by the OCI detector; the provider never assigns it.
ZeroOciMetadataReponse ==
    [f \in DOMAIN OciJSONNames |-> ""]
        @@ [ShapeConfig |-> ZeroShapeConfig, RawResponse |-> NotJSON]

ZeroOkeMetadataReponse ==
    [f \in DOMAIN CommonJSONNames |-> ""]
        @@ [ShapeConfig |-> ZeroShapeConfig, Metadata |-> ZeroOkeMetadata]

\* Decoding a member into a nested struct: [v |-> struct, err |-> BOOLEAN].
decodeShapeConfig(m, old) ==
    LET x == fieldMember(m, "shapeConfig")
    IN  IF x = Nil \/ x.t = "null" THEN [v |-> old, err |-> FALSE]
        ELSE IF x.t # "object" THEN [v |-> old, err |-> TRUE]
        ELSE LET a == decodeFloat32(x.m, "ocpus", old.OCpus)
                 b == decodeFloat32(x.m, "memoryInGBs", old.MemoryInGBs)
                 c == decodeFloat32(x.m, "networkingBandwidthInGbps",
                                    old.NetworkingBandwidthInGbps)
                 d == decodeInt(x.m, "maxVnicAttachments", old.MaxVnicAttachments)
             IN  [v |-> [OCpus |-> a.v, MemoryInGBs |-> b.v,
                         NetworkingBandwidthInGbps |-> c.v,
                         MaxVnicAttachments |-> d.v],
                  err |-> a.err \/ b.err \/ c.err \/ d.err]

decodeOkeMetadata(m, old) ==
    LET x == fieldMember(m, "metadata")
    IN  IF x = Nil \/ x.t = "null" THEN [v |-> old, err |-> FALSE]
        ELSE IF x.t # "object" THEN [v |-> old, err |-> TRUE]
        ELSE LET d == [f \in DOMAIN OkeMetadataJSONNames |->
                          decodeString(x.m, OkeMetadataJSONNames[f], old[f])]
             IN  [v |-> [f \in DOMAIN OkeMetadataJSONNames |-> d[f].v],
                  err |-> \E f \in DOMAIN OkeMetadataJSONNames : d[f].err]

\* An object decoded into a fresh OciMetadataReponse.
decodeOciObject(m) ==
    LET z == ZeroOciMetadataReponse
        d == [f \in DOMAIN OciJSONNames |-> decodeString(m, OciJSONNames[f], z[f])]
        sc == decodeShapeConfig(m, z.ShapeConfig)
    IN  [v |-> [f \in DOMAIN OciJSONNames |-> d[f].v]
                  @@ [ShapeConfig |-> sc.v, RawResponse |-> z.RawResponse],
         err |-> sc.err \/ \E f \in DOMAIN OciJSONNames : d[f].err]

\* An object decoded into a fresh OkeMetadataReponse.
decodeOkeObject(m) ==
    LET z == ZeroOkeMetadataReponse
        d == [f \in DOMAIN CommonJSONNames |-> decodeString(m, CommonJSONNames[f], z[f])]
        sc == decodeShapeConfig(m, z.ShapeConfig)
        md == decodeOkeMetadata(m, z.Metadata)
    IN  [v |-> [f \in DOMAIN CommonJSONNames |-> d[f].v]
                  @@ [ShapeConfig |-> sc.v, Metadata |-> md.v],
         err |-> sc.err \/ md.err \/ \E f \in DOMAIN CommonJSONNames : d[f].err]

(***************************************************************************)
(* json.Unmarshal(respBody, &metadata) with metadata a nil struct pointer: *)
(* [ptr |-> the pointer afterwards, err |-> whether an error is returned]. *)
(* Text that is not JSON is a syntax error and leaves the pointer nil; the *)
(* JSON value null decodes without error and leaves the pointer nil; any   *)
(* other value allocates the struct, and is an error unless it is an       *)
(* object whose members have the fields' types.                            *)
(***************************************************************************)
UnmarshalOci(body) ==
    CASE body.t = "invalid" -> [ptr |-> Nil, err |-> TRUE]
      [] body.t = "null" -> [ptr |-> Nil, err |-> FALSE]
      [] body.t = "object" ->
            LET d == decodeOciObject(body.m) IN [ptr |-> d.v, err |-> d.err]
      [] OTHER -> [ptr |-> ZeroOciMetadataReponse, err |-> TRUE]

\* a decoder that takes text that is not JSON for an absent value
UnmarshalOkeLenient(body) ==
    CASE body.t = "invalid" -> [ptr |-> Nil, err |-> FALSE]
      [] body.t = "null" -> [ptr |-> Nil, err |-> FALSE]
      [] body.t = "object" ->
            LET d == decodeOkeObject(body.m) IN [ptr |-> d.v, err |-> d.err]
      [] OTHER -> [ptr |-> ZeroOkeMetadataReponse, err |-> TRUE]

UnmarshalOke(body) ==
    CASE body.t = "invalid" -> [ptr |-> Nil, err |-> TRUE]
      [] body.t = "null" -> [ptr |-> Nil, err |-> FALSE]
      [] body.t = "object" ->
            LET d == decodeOkeObject(body.m) IN [ptr |-> d.v, err |-> d.err]
      [] OTHER -> [ptr |-> ZeroOkeMetadataReponse, err |-> TRUE]

(***************************************************************************)
(* The identity certificate                                                *)
(*                                                                         *)
(* A certificate reply body is text with no PEM block in it (NotPEM) or a  *)
(* PEM block holding DER bytes: bytes that are no certificate (BadDER) or  *)
(* a certificate whose subject lists attribute values in order.  A value   *)
(* is an ASN.1 string, or a value of another ASN.1 type (ASN1Int).         *)
(***************************************************************************)
NotPEM == [t |-> "notpem"]
PEM(der) == [t |-> "pem", der |-> der]
BadDER == [t |-> "garbage"]
ASN1Str(s) == [isString |-> TRUE, s |-> s]
ASN1Int == [isString |-> FALSE, s |-> ""]
Certificate(names) == [t |-> "certificate", names |-> names]

\* pem.Decode(respBody): the block's bytes, or Nil when there is no block.
pemDecode(body) == IF body.t = "pem" THEN body.der ELSE Nil

\* x509.ParseCertificate(block.Bytes).  A subject attribute whose value is
\* not an ASN.1 string is refused by the toolchains whose parser reads names
\* with parseASN1String (strict) and kept, with a non-string Value, by the
\* older ones that unmarshal the name with encoding/asn1.
ParseCertificate(der, strict) ==
    IF der.t # "certificate" THEN [cert |-> Nil, err |-> TRUE]
    ELSE IF strict /\ \E i \in DOMAIN der.names : ~der.names[i].isString
         THEN [cert |-> Nil, err |-> TRUE]
    ELSE [cert |-> [Subject |-> [Names |-> der.names]], err |-> FALSE]

TenantPrefix == "opc-tenant:"

\* The scan of extractTenancyIDFromCertificate over Subject.Names from
\* position i on: nameAttr.Value.(string) panics on a value that is not a
\* string; the first value with the prefix ends the scan.
RECURSIVE scanNames(_, _)
scanNames(names, i) ==
    IF i > Len(names) THEN [panic |-> FALSE, v |-> ""]
    ELSE IF ~names[i].isString THEN [panic |-> TRUE, v |-> ""]
    ELSE IF HasPrefix(names[i].s, TenantPrefix)
         THEN [panic |-> FALSE, v |-> sliceFrom(names[i].s, Len(chars[TenantPrefix]))]
    ELSE scanNames(names, i + 1)

\* the extraction returning the matching value whole, prefix included
extractWholeValue(cert) ==
    LET names == cert.Subject.Names
        r == scanNames(names, 1)
        hits == {i \in DOMAIN names :
                    names[i].isString /\ HasPrefix(names[i].s, TenantPrefix)}
    IN  [panic |-> r.panic,
         v |-> IF r.panic \/ hits = {} THEN ""
               ELSE names[CHOOSE i \in hits : \A j \in hits : i <= j].s]

extractTenancyIDFromCertificate(cert) == scanNames(cert.Subject.Names, 1)

(***************************************************************************)
(* Attributes (pcommon.Map): a list of key/value pairs with distinct keys. *)
(***************************************************************************)
hasKey(attrs, k) == \E i \in DOMAIN attrs : attrs[i].k = k

\* InsertString adds the pair when the key is absent and does nothing
\* otherwise.
InsertString(attrs, k, v) ==
    IF hasKey(attrs, k) THEN attrs ELSE Append(attrs, [k |-> k, v |-> v])

\* UpsertString adds the pair or replaces the value of an existing key.
UpsertString(attrs, k, v) ==
    IF hasKey(attrs, k)
    THEN [i \in DOMAIN attrs |->
            IF attrs[i].k = k THEN [k |-> k, v |-> v] ELSE attrs[i]]
    ELSE Append(attrs, [k |-> k, v |-> v])

\* semconv v1.6.1
AttributeCloudProvider == "cloud.provider"
AttributeCloudPlatform == "cloud.platform"
AttributeCloudAccountID == "cloud.account.id"
AttributeCloudRegion == "cloud.region"
AttributeCloudAvailabilityZone == "cloud.availability_zone"
AttributeHostID == "host.id"
AttributeHostImageID == "host.image.id"
AttributeK8SClusterName == "k8s.cluster.name"
SchemaURL == "https://opentelemetry.io/schemas/1.6.1"

attributePrefix == "oci."

(***************************************************************************)
(* gjson.Get(json, path) for paths of plain member names joined by dots.   *)
(***************************************************************************)
\* path split at the dots, from character i on, cur being the name read so far
RECURSIVE splitFrom(_, _, _)
splitFrom(cs, i, cur) ==
    IF i > Len(cs) THEN <<str(cur)>>
    ELSE IF cs[i] = "." THEN <<str(cur)>> \o splitFrom(cs, i + 1, <<>>)
    ELSE splitFrom(cs, i + 1, Append(cur, cs[i]))

pathSegments(path) == splitFrom(chars[path], 1, <<>>)

RECURSIVE walk(_, _, _)
walk(v, segs, i) ==
    IF i > Len(segs) THEN v
    ELSE IF v.t = "object" /\ segs[i] \in DOMAIN v.m THEN walk(v.m[segs[i]], segs, i + 1)
    ELSE Nil

\* The text of a JSON value that is not a string, as Result.String gives it.
jsonText(v) ==
    CASE v.t = "null" -> ""
      [] v.t = "bool" -> IF v.b THEN "true" ELSE "false"
      [] v.t = "number" ->
            (CASE v.n = 0 /\ ~v.frac -> "0" [] v.n = 1 /\ ~v.frac -> "1"
               [] v.n = 2 /\ ~v.frac -> "2" [] v.n = 1 /\ v.frac -> "1.5"
               [] OTHER -> "number")
      [] v = JObj([b |-> JStr("v"), c |-> JStr("w")]) -> "{\"b\":\"v\",\"c\":\"w\"}"
      [] OTHER -> "json"

\* [exists |-> Result.Exists(), str |-> Result.String()]
gjsonGet(raw, path) ==
    LET r == walk(raw, pathSegments(path), 1)
    IN  IF r = Nil THEN [exists |-> FALSE, str |-> ""]
        ELSE IF r.t = "string" THEN [exists |-> TRUE, str |-> r.s]
        ELSE [exists |-> TRUE, str |-> jsonText(r)]

(***************************************************************************)
(* Detect, from the value its provider's Metadata call returned            *)
(* (ret = [resp |-> pointer, err |-> error]) to what it returns.           *)
(***************************************************************************)
Returned(attrs, schemaURL) ==
    [state |-> "returned", attrs |-> attrs, schemaURL |-> schemaURL, err |-> NoError]
Panicked == [state |-> "panicked", attrs |-> <<>>, schemaURL |-> "", err |-> NoError]

\* the loop keeping the first value written under a key
RECURSIVE applyJPathsFirstWins(_, _, _, _)
applyJPathsFirstWins(attrs, raw, jpaths, i) ==
    IF i > Len(jpaths) THEN attrs
    ELSE LET value == gjsonGet(raw, jpaths[i].Path)
         IN  applyJPathsFirstWins(
                 IF value.exists
                   THEN InsertString(attrs, concat(attributePrefix, jpaths[i].Name),
                                     value.str)
                   ELSE attrs,
                 raw, jpaths, i + 1)

\* the loop over d.attributeJPaths, from entry i on
RECURSIVE applyJPaths(_, _, _, _)
applyJPaths(attrs, raw, jpaths, i) ==
    IF i > Len(jpaths) THEN attrs
    ELSE LET value == gjsonGet(raw, jpaths[i].Path)
         IN  applyJPaths(IF value.exists
                           THEN UpsertString(attrs, concat(attributePrefix, jpaths[i].Name),
                                             value.str)
                           ELSE attrs,
                         raw, jpaths, i + 1)

\* the canonical attributes of the OCI detector
ociCanonical(oci) ==
    LET a1 == InsertString(<<>>, AttributeCloudProvider, "oci")
        a2 == InsertString(a1, AttributeCloudAccountID, oci.TenantId)
        a3 == InsertString(a2, AttributeCloudRegion, oci.CanonicalRegionName)
        a4 == InsertString(a3, AttributeCloudAvailabilityZone, oci.AvailabilityDomain)
        a5 == InsertString(a4, AttributeHostID, oci.Id)
        a6 == InsertString(a5, AttributeHostImageID, oci.Image)
        a7 == InsertString(a6, "oci.compartment.id", oci.CompartmentId)
    IN  InsertString(a7, "oci.shape", oci.Shape)

\* Detect testing the returned pointer where the code tests the error
ociDetectTestsPointer(ret, attributeJPaths) ==
    IF ret.resp = Nil
    THEN (IF ret.err # NoError THEN Returned(<<>>, "") ELSE Panicked)
    ELSE Returned(applyJPaths(ociCanonical(ret.resp), ret.resp.RawResponse,
                              attributeJPaths, 1),
                  SchemaURL)

ociDetect(ret, attributeJPaths) ==
    IF ret.err # NoError THEN Returned(<<>>, "")
    ELSE IF ret.resp = Nil THEN Panicked
    ELSE Returned(applyJPaths(ociCanonical(ret.resp), ret.resp.RawResponse,
                              attributeJPaths, 1),
                  SchemaURL)

\* the region taken from Region where the code takes CanonicalRegionName
okeCanonicalFromRegion(oke) ==
    LET a1 == InsertString(<<>>, AttributeCloudProvider, "oci")
        a2 == InsertString(a1, AttributeCloudPlatform, "oci_oke")
        a3 == InsertString(a2, AttributeCloudRegion, oke.Region)
        a4 == InsertString(a3, AttributeK8SClusterName, oke.Metadata.OkeClusterDisplayName)
        a5 == InsertString(a4, AttributeCloudAccountID, oke.Metadata.OkeTenancyId)
        a6 == InsertString(a5, "oci.oke.clusterid", oke.Metadata.OkeClusterId)
    IN  InsertString(a6, "oci.oke.k8version", oke.Metadata.OkeK8Version)

okeCanonical(oke) ==
    LET a1 == InsertString(<<>>, AttributeCloudProvider, "oci")
        a2 == InsertString(a1, AttributeCloudPlatform, "oci_oke")
        a3 == InsertString(a2, AttributeCloudRegion, oke.CanonicalRegionName)
        a4 == InsertString(a3, AttributeK8SClusterName, oke.Metadata.OkeClusterDisplayName)
        a5 == InsertString(a4, AttributeCloudAccountID, oke.Metadata.OkeTenancyId)
        a6 == InsertString(a5, "oci.oke.clusterid", oke.Metadata.OkeClusterId)
    IN  InsertString(a6, "oci.oke.k8version", oke.Metadata.OkeK8Version)

okeDetect(ret) ==
    IF ret.err # NoError THEN Returned(<<>>, "")
    ELSE IF ret.resp = Nil THEN Panicked
    ELSE Returned(okeCanonical(ret.resp), SchemaURL)

(***************************************************************************)
(* What the endpoints may answer                                           *)
(***************************************************************************)
StatusOK == 200
Statuses == {200, 204, 404}
\* resp.Status
statusText(code) ==
    CASE code = 200 -> "200 OK" [] code = 204 -> "204 No Content"
      [] code = 404 -> "404 Not Found" [] OTHER -> "unknown"

NoReply == [kind |-> "none", status |-> 0, body |-> NotJSON]
TransportError == [kind |-> "error", status |-> 0, body |-> NotJSON]
Response(status, body) == [kind |-> "response", status |-> status, body |-> body]

\* json.Marshal of the OciMetadataReponse of TestQueryEndpointCorrect
TestOciBody ==
    JObj([TenantId |-> JStr("tenantId"), availabilityDomain |-> JStr("availabilityDomain"),
          faultDomain |-> JStr("faultDomain"), compartmentId |-> JStr("compartmentId"),
          displayName |-> JStr("displayName"), hostname |-> JStr("hostname"),
          id |-> JStr("id"), image |-> JStr("image"), region |-> JStr("region"),
          canonicalRegionName |-> JStr("canonicalRegionName"),
          ociAdName |-> JStr("ociAdName"), shape |-> JStr("shape"),
          shapeConfig |-> JObj([ocpus |-> JNum(0, FALSE), memoryInGBs |-> JNum(0, FALSE),
                                networkingBandwidthInGbps |-> JNum(0, FALSE),
                                maxVnicAttachments |-> JNum(0, FALSE)])])

\* a cluster node's reply: the instance members and the "metadata" object
TestOkeBody ==
    JObj([canonicalRegionName |-> JStr("canonicalRegionName"), region |-> JStr("region"),
          shape |-> JStr("shape"),
          shapeConfig |-> JObj([ocpus |-> JNum(1, TRUE), maxVnicAttachments |-> JNum(2, FALSE)]),
          metadata |-> JObj(("oke-tenancy-id" :> JStr("oke-tenancy-id"))
                            @@ ("oke-cluster-display-name" :> JStr("oke-cluster-display-name"))
                            @@ ("oke-cluster-id" :> JStr("oke-cluster-id"))
                            @@ ("oke-k8version" :> JStr("oke-k8version"))
                            @@ ("oke-unknown" :> JBool(TRUE)))])

\* members that match a field only case-insensitively, and unknown members
FoldedBody ==
    JObj([Region |-> JStr("r1"), TENANTID |-> JStr("fromBody"), shape |-> JNull,
          a |-> JObj([b |-> JStr("v"), c |-> JStr("w")])])

\* members of the wrong JSON type
BadTypeBody == JObj([region |-> JNum(1, FALSE), shape |-> JStr("shape")])
BadShapeBody == JObj([shapeConfig |-> JObj([maxVnicAttachments |-> JNum(1, TRUE)])])

MetadataBodies ==
    {NotJSON, JNull, JArr(<<>>), JStr("x"), EmptyObj, TestOciBody, TestOkeBody,
     FoldedBody, BadTypeBody, BadShapeBody}

\* what a reply that is not a 200 may carry: an error page, or JSON
ErrorBodies == {NotJSON, TestOciBody}

MetadataReplies ==
    {TransportError}
        \cup {Response(StatusOK, b) : b \in MetadataBodies}
        \cup {Response(st, b) : st \in Statuses \ {StatusOK}, b \in ErrorBodies}

MaxNames == 2
AttrValues ==
    {ASN1Str("opc-tenant:tenantId"), ASN1Str("opc-tenant:t2"), ASN1Str("opc-tenant:"),
     ASN1Str("opc-tenant"), ASN1Str("Oracle"), ASN1Int}
SubjectNames == UNION {[1..n -> AttrValues] : n \in 0..MaxNames}

CertBodies == {NotPEM, PEM(BadDER)} \cup {PEM(Certificate(ns)) : ns \in SubjectNames}
CertReplies ==
    {TransportError}
        \cup {[kind |-> "response", status |-> StatusOK, body |-> b] : b \in CertBodies}
        \cup {[kind |-> "response", status |-> st, body |-> NotPEM] :
                st \in Statuses \ {StatusOK}}

MaxJPaths == 3
JPathEntries ==
    {[Name |-> "x", Path |-> "a.b"], [Name |-> "x", Path |-> "a.c"],
     [Name |-> "x", Path |-> "a.z"], [Name |-> "shape", Path |-> "a.b"]}
JPathLists == UNION {[1..n -> JPathEntries] : n \in 0..MaxJPaths}
\* the configurations NewDetector is given: none, or a Config
Configs == {Nil} \cup {[AttributeJPaths |-> js] : js \in {l \in JPathLists : Len(l) <= 1}}

\* the response of TestDetectAzureAvailable (OCI)
TestOciResponse ==
    [TenantId |-> "tenantId", AvailabilityDomain |-> "availabilityDomain",
     FaultDomain |-> "faultDomain", CompartmentId |-> "compartmentId",
     DisplayName |-> "displayName", Hostname |-> "hostname", Id |-> "hostId",
     Image |-> "hostImageId", Region |-> "region",
     CanonicalRegionName |-> "canonicalRegionName", OciAdName |-> "availability",
     Shape |-> "shape", ShapeConfig |-> ZeroShapeConfig, RawResponse |-> NotJSON]

\* the response of TestDetectAzureAvailable (OKE)
TestOkeResponse ==
    [AvailabilityDomain |-> "availabilityDomain", FaultDomain |-> "faultDomain",
     CompartmentId |-> "compartmentId", DisplayName |-> "displayName",
     Hostname |-> "hostname", Id |-> "id", Image |-> "image", Region |-> "region",
     CanonicalRegionName |-> "canonicalRegionName", OciAdName |-> "ociAdName",
     Shape |-> "shape", ShapeConfig |-> ZeroShapeConfig,
     Metadata |-> [OkeTm |-> "oke-tm", OkeK8Version |-> "oke-k8version",
                   OkePoolId |-> "oke-pool-id", OkeTenancyId |-> "oke-tenancy-id",
                   OkeClusterDisplayName |-> "oke-cluster-display-name",
                   OkeAvailabilityDomain |-> "oke-ad", OkeClusterId |-> "oke-cluster-id",
                   OkePrivateSubnet |-> "oke-is-on-private-subnet",
                   OkeImageName |-> "oke-image-name"]]

\* what a mock provider is told to return
MockResponses(variant) ==
    IF variant = "oci"
    THEN {ZeroOciMetadataReponse, TestOciResponse,
          [TestOciResponse EXCEPT !.RawResponse = FoldedBody],
          [ZeroOciMetadataReponse EXCEPT !.TenantId = "t2", !.Shape = "x",
                                         !.RawResponse = FoldedBody]}
    ELSE {ZeroOkeMetadataReponse, TestOkeResponse,
          [ZeroOkeMetadataReponse EXCEPT !.CanonicalRegionName = "r1",
                                         !.Metadata.OkeTenancyId = "t2"]}
MockReturns(variant) ==
    {[resp |-> r, err |-> e] :
        r \in {Nil} \cup MockResponses(variant),
        e \in {NoError, Errorf("mock error", "")}}

(***************************************************************************)
(* State                                                                   *)
(*                                                                         *)
(* detector: the detector under examination, Nil before it is built.       *)
(* calls[c]: one Detect call: where it stands (pc), the requests it sent,  *)
(* the replies it received (v2, v1, cert), which reply resp refers to, how  *)
(* reading the metadata body and the certificate body ended (bodyRead,     *)
(* certRead), the decoded metadata pointer, the replies whose body it      *)
(* closed, what Metadata returned (ret) and what Detect returned (out).    *)
(* ctx is the context the caller passed: live, or cancelled (by the caller *)
(* or by its deadline).  Two fields record history and are read by no      *)
(* handler: cancelledAt, where the call stood when its context was         *)
(* cancelled, and prior, how many calls on the detector had ended when     *)
(* this one began.                                                         *)
(***************************************************************************)
VARIABLES detector, calls
vars == <<detector, calls>>

\* the Detect calls made on the detector
Calls == {1, 2}
\* the call examined when the detector is called once
Solo == {1}

metadataEndpointV2 == "http://169.254.169.254/opc/v2/instance/"
metadataEndpointV1 == "http://169.254.169.254/opc/v1/instance/"
identityCertEndpoint == "http://169.254.169.254/opc/v2/identity/cert.pem"

\* oci.NewProvider(): the OCI provider
NewOciProvider ==
    [kind |-> "real", endpointV1 |-> metadataEndpointV1, endpointV2 |-> metadataEndpointV2,
     identityCertEndpoint |-> identityCertEndpoint]
\* oke.NewProvider(); it has no certificate endpoint
NewOkeProvider ==
    [kind |-> "real", endpointV1 |-> metadataEndpointV1, endpointV2 |-> metadataEndpointV2,
     identityCertEndpoint |-> ""]
MockProvider ==
    [kind |-> "mock", endpointV1 |-> "", endpointV2 |-> "", identityCertEndpoint |-> ""]

Running == [state |-> "running", resp |-> Nil, err |-> NoError]
idleCall ==
    [pc |-> "idle", sent |-> <<>>, v2 |-> NoReply, v1 |-> NoReply, cert |-> NoReply,
     resp |-> "none", bodyRead |-> "none", certRead |-> "none", metadata |-> Nil,
     closed |-> {}, ret |-> Running,
     out |-> [state |-> "running", attrs |-> <<>>, schemaURL |-> "", err |-> NoError],
     logged |-> FALSE, ctx |-> "live", cancelledAt |-> "none", prior |-> 0]

Init ==
    /\ detector = Nil
    /\ calls = [c \in Calls |-> idleCall]

(***************************************************************************)
(* Construction                                                            *)
(***************************************************************************)
\* NewDetector(p, cfg) of the OCI detector: cfg.(Config) panics on a cfg
\* that holds no Config.
newOciDetector(cfg) ==
    IF cfg = Nil
    THEN [state |-> "panicked", variant |-> "oci", provider |-> NewOciProvider,
          attributeJPaths |-> <<>>]
    ELSE [state |-> "ready", variant |-> "oci", provider |-> NewOciProvider,
          attributeJPaths |-> cfg.AttributeJPaths]

\* NewDetector(p, cfg) of the OKE detector: cfg is not looked at.
newOkeDetector(cfg) ==
    [state |-> "ready", variant |-> "oke", provider |-> NewOkeProvider,
     attributeJPaths |-> <<>>]

NewDetector(variant, cfg) ==
    /\ detector = Nil
    /\ detector' = IF variant = "oci" THEN newOciDetector(cfg) ELSE newOkeDetector(cfg)
    /\ UNCHANGED calls

\* &Detector{provider: mp, ...}: a detector wired to a mock provider
NewMockDetector(variant, jpaths) ==
    /\ detector = Nil
    /\ detector' = [state |-> "ready", variant |-> variant, provider |-> MockProvider,
                    attributeJPaths |-> IF variant = "oci" THEN jpaths ELSE <<>>]
    /\ UNCHANGED calls

(***************************************************************************)
(* One Detect call on a detector d, as steps of its call record            *)
(***************************************************************************)
\* the fallback request built without the Authorization header
sendRequestBareFallback(call, url) ==
    [call EXCEPT !.sent = Append(@, [method |-> "GET", url |-> url,
                                     Authorization |-> IF url = metadataEndpointV1 THEN ""
                                                       ELSE "Bearer Oracle"])]

\* http.NewRequestWithContext(ctx, http.MethodGet, url, nil), the
\* Authorization header, client.Do
sendRequest(call, url) ==
    [call EXCEPT !.sent = Append(@, [method |-> "GET", url |-> url,
                                     Authorization |-> "Bearer Oracle"])]

\* Detect filling a resource the detector keeps between calls: the keys an
\* earlier call inserted are still there, and InsertString leaves them
detectOutSharedResource(d, ret) ==
    LET own == IF ret.state = "panicked" THEN Panicked
               ELSE IF d.variant = "oci" THEN ociDetect(ret, d.attributeJPaths)
               ELSE okeDetect(ret)
        earlier == {k \in Calls : calls[k].pc = "done" /\ calls[k].out.attrs # <<>>}
    IN  IF own.state = "returned" /\ own.attrs # <<>> /\ earlier # {}
        THEN [own EXCEPT !.attrs = calls[CHOOSE k \in earlier : TRUE].out.attrs]
        ELSE own

\* Detect's part after d.provider.Metadata(ctx) came back with ret
detectOut(d, ret) ==
    IF ret.state = "panicked" THEN Panicked
    ELSE IF d.variant = "oci" THEN ociDetect(ret, d.attributeJPaths)
    ELSE okeDetect(ret)

\* Metadata ends with ret: the deferred resp.Body.Close() runs if the call
\* got as far as registering it, and Detect goes on with what came back.
finish(d, call, ret) ==
    [call EXCEPT !.pc = "done",
                 !.ret = ret,
                 !.closed = IF call.resp = "none" THEN @ ELSE @ \cup {call.resp},
                 !.out = detectOut(d, ret),
                 !.logged = ret.state = "returned" /\ ret.err # NoError]

returns(resp, err) == [state |-> "returned", resp |-> resp, err |-> err]
panics == [state |-> "panicked", resp |-> Nil, err |-> NoError]

\* Metadata answering from the response an earlier call on the provider
\* obtained, without asking the endpoint again
startMetadataCached(d, call) ==
    LET hits == {k \in Calls : /\ calls[k].pc = "done"
                               /\ calls[k].ret.state = "returned"
                               /\ calls[k].ret.err = NoError}
    IN  IF hits = {} THEN [sendRequest(call, d.provider.endpointV2) EXCEPT !.pc = "v2_wait"]
        ELSE finish(d, call, calls[CHOOSE k \in hits : TRUE].ret)

\* Detect calls Metadata, which sends the version-2 request.
startMetadata(d, call) ==
    [sendRequest(call, d.provider.endpointV2) EXCEPT !.pc = "v2_wait"]

\* a version-2 request answered with a non-200 status sent once more
\* before the fallback
afterV2RetriesOnStatus(d, call, reply) ==
    LET c1 == [call EXCEPT !.v2 = reply]
    IN  IF reply.kind = "error"
        THEN finish(d, c1, returns(Nil, Errorf("transport_v2", "")))
        ELSE IF reply.status # StatusOK /\ Len(call.sent) < 2
        THEN sendRequest(c1, d.provider.endpointV2)
        ELSE IF reply.status # StatusOK
        THEN [sendRequest(c1, d.provider.endpointV1) EXCEPT !.pc = "v1_wait"]
        ELSE [c1 EXCEPT !.pc = "read_body", !.resp = "v2"]

\* a version-2 transport failure treated like a non-200 status
afterV2FallsBackOnError(d, call, reply) ==
    LET c1 == [call EXCEPT !.v2 = reply]
    IN  IF reply.kind = "error" \/ reply.status # StatusOK
        THEN [sendRequest(c1, d.provider.endpointV1) EXCEPT !.pc = "v1_wait"]
        ELSE [c1 EXCEPT !.pc = "read_body", !.resp = "v2"]

\* p.client.Do(req) of the version-2 request came back with reply.
afterV2(d, call, reply) ==
    LET c1 == [call EXCEPT !.v2 = reply]
    IN  IF reply.kind = "error"
        THEN finish(d, c1, returns(Nil, Errorf("transport_v2", "")))
        ELSE IF reply.status # StatusOK
        THEN [sendRequest(c1, d.provider.endpointV1) EXCEPT !.pc = "v1_wait"]
        ELSE [c1 EXCEPT !.pc = "read_body", !.resp = "v2"]

\* a failed version-1 request sent once more before giving up
afterV1RetriesOnError(d, call, reply) ==
    LET c1 == [call EXCEPT !.v1 = reply]
    IN  IF reply.kind = "error" /\ Len(call.sent) < 3
        THEN sendRequest(c1, d.provider.endpointV1)
        ELSE IF reply.kind = "error"
        THEN finish(d, c1, returns(Nil, Errorf("transport_v1", "")))
        ELSE IF reply.status # StatusOK
        THEN finish(d, c1, returns(Nil, Errorf("status_v1", statusText(reply.status))))
        ELSE [c1 EXCEPT !.pc = "read_body", !.resp = "v1"]

\* the version-1 reply taken without looking at its status
afterV1IgnoresStatus(d, call, reply) ==
    LET c1 == [call EXCEPT !.v1 = reply]
    IN  IF reply.kind = "error"
        THEN finish(d, c1, returns(Nil, Errorf("transport_v1", "")))
        ELSE [c1 EXCEPT !.pc = "read_body", !.resp = "v1"]

\* p.client.Do(req) of the version-1 request came back with reply.
afterV1(d, call, reply) ==
    LET c1 == [call EXCEPT !.v1 = reply]
    IN  IF reply.kind = "error"
        THEN finish(d, c1, returns(Nil, Errorf("transport_v1", "")))
        ELSE IF reply.status # StatusOK
        THEN finish(d, c1, returns(Nil, Errorf("status_v1", statusText(reply.status))))
        ELSE [c1 EXCEPT !.pc = "read_body", !.resp = "v1"]

\* the version-2 body read even after the fallback
respBodyOfV2(call) == call.v2.body

\* the body of the reply resp refers to
respBody(call) == IF call.resp = "v2" THEN call.v2.body ELSE call.v1.body

\* the certificate asked for whether or not the metadata body decoded
ociAfterReadBodyAsksCertAnyway(d, call, ok) ==
    LET c1 == [call EXCEPT !.bodyRead = IF ok THEN "ok" ELSE "failed"]
    IN  IF ~ok THEN finish(d, c1, returns(Nil, Errorf("read_body", "")))
        ELSE LET u == UnmarshalOci(respBody(c1))
             IN  [sendRequest([c1 EXCEPT !.metadata = u.ptr],
                              d.provider.identityCertEndpoint)
                    EXCEPT !.pc = "cert_wait"]

\* OCI: ioutil.ReadAll(resp.Body) ended (ok or not); decode; ask for the
\* identity certificate.
ociAfterReadBody(d, call, ok) ==
    LET c1 == [call EXCEPT !.bodyRead = IF ok THEN "ok" ELSE "failed"]
    IN  IF ~ok THEN finish(d, c1, returns(Nil, Errorf("read_body", "")))
        ELSE LET u == UnmarshalOci(respBody(c1))
             IN  IF u.err THEN finish(d, c1, returns(Nil, Errorf("decode", "")))
                 ELSE [sendRequest([c1 EXCEPT !.metadata = u.ptr],
                                   d.provider.identityCertEndpoint)
                         EXCEPT !.pc = "cert_wait"]

\* OKE: ioutil.ReadAll(resp.Body) ended (ok or not); decode; return.
okeAfterReadBody(d, call, ok) ==
    LET c1 == [call EXCEPT !.bodyRead = IF ok THEN "ok" ELSE "failed"]
    IN  IF ~ok THEN finish(d, c1, returns(Nil, Errorf("read_body", "")))
        ELSE LET u == UnmarshalOke(respBody(c1))
             IN  IF u.err THEN finish(d, c1, returns(Nil, Errorf("decode", "")))
                 ELSE finish(d, [c1 EXCEPT !.metadata = u.ptr], returns(u.ptr, NoError))

\* a certificate reply is read whatever its status
afterCertReplyIgnoresStatus(d, call, reply) ==
    LET c1 == [call EXCEPT !.cert = reply]
    IN  IF reply.kind = "error"
        THEN finish(d, c1, returns(Nil, Errorf("certificate", "transport")))
        ELSE [c1 EXCEPT !.pc = "cert_read"]

\* getIdentityCertificate: client.Do(req) came back with reply.
afterCertReply(d, call, reply) ==
    LET c1 == [call EXCEPT !.cert = reply]
    IN  IF reply.kind = "error"
        THEN finish(d, c1, returns(Nil, Errorf("certificate", "transport")))
        ELSE IF reply.status # StatusOK
        THEN finish(d, c1, returns(Nil, Errorf("certificate", statusText(reply.status))))
        ELSE [c1 EXCEPT !.pc = "cert_read"]

\* the certificate's tenancy id used only when the body supplied none
afterCertReadPrefersBody(d, call, ok, strict) ==
    LET c1 == [call EXCEPT !.certRead = IF ok THEN "ok" ELSE "failed"]
        block == pemDecode(c1.cert.body)
        p == ParseCertificate(block, strict)
        t == extractTenancyIDFromCertificate(p.cert)
        md == IF c1.metadata.TenantId = "" THEN [c1.metadata EXCEPT !.TenantId = t.v]
              ELSE c1.metadata
    IN  IF ~ok THEN finish(d, c1, returns(Nil, Errorf("certificate", "read")))
        ELSE IF block = Nil
        THEN finish(d, c1, returns(Nil, Errorf("certificate", "not valid pem data")))
        ELSE IF p.err THEN finish(d, c1, returns(Nil, Errorf("certificate", "parse")))
        ELSE IF t.panic \/ c1.metadata = Nil THEN finish(d, c1, panics)
        ELSE finish(d, [c1 EXCEPT !.metadata = md], returns(md, NoError))

\* the certificate step without the assignment to metadata.TenantId
afterCertReadKeepsTenant(d, call, ok, strict) ==
    LET c1 == [call EXCEPT !.certRead = IF ok THEN "ok" ELSE "failed"]
        block == pemDecode(c1.cert.body)
        p == ParseCertificate(block, strict)
        t == extractTenancyIDFromCertificate(p.cert)
    IN  IF ~ok THEN finish(d, c1, returns(Nil, Errorf("certificate", "read")))
        ELSE IF block = Nil
        THEN finish(d, c1, returns(Nil, Errorf("certificate", "not valid pem data")))
        ELSE IF p.err THEN finish(d, c1, returns(Nil, Errorf("certificate", "parse")))
        ELSE IF t.panic \/ c1.metadata = Nil THEN finish(d, c1, panics)
        ELSE finish(d, c1, returns(c1.metadata, NoError))

\* getIdentityCertificate from ioutil.ReadAll on, then
\* metadata.TenantId = extractTenancyIDFromCertificate(identityCert).
afterCertRead(d, call, ok, strict) ==
    LET c1 == [call EXCEPT !.certRead = IF ok THEN "ok" ELSE "failed"]
        block == pemDecode(c1.cert.body)
        p == ParseCertificate(block, strict)
        t == extractTenancyIDFromCertificate(p.cert)
        md == [c1.metadata EXCEPT !.TenantId = t.v]
    IN  IF ~ok THEN finish(d, c1, returns(Nil, Errorf("certificate", "read")))
        ELSE IF block = Nil
        THEN finish(d, c1, returns(Nil, Errorf("certificate", "not valid pem data")))
        ELSE IF p.err THEN finish(d, c1, returns(Nil, Errorf("certificate", "parse")))
        ELSE IF t.panic \/ c1.metadata = Nil THEN finish(d, c1, panics)
        ELSE finish(d, [c1 EXCEPT !.metadata = md], returns(md, NoError))

Ready == detector # Nil /\ detector.state = "ready"

\* the calls that have ended
ended == {k \in Calls : calls[k].pc = "done"}

\* client.Do(req) on a request whose context is cancelled returns the
\* context's error, whether the context was cancelled before the request
\* was sent or while it was in flight.
doReturns(call, reply) == call.ctx = "cancelled" => reply = TransportError

\* Detect on a detector wired to the real provider
Detect(c) ==
    /\ Ready /\ detector.provider.kind = "real"
    /\ calls[c].pc = "idle"
    /\ calls' = [calls EXCEPT ![c] =
                    startMetadata(detector, [@ EXCEPT !.prior = Cardinality(ended)])]
    /\ UNCHANGED detector

\* Detect on a detector wired to a mock provider told to return ret
DetectMock(c, ret) ==
    /\ Ready /\ detector.provider.kind = "mock"
    /\ ret \in MockReturns(detector.variant)
    /\ calls[c].pc = "idle"
    /\ calls' = [calls EXCEPT ![c] =
                    finish(detector, [@ EXCEPT !.prior = Cardinality(ended)],
                           returns(ret.resp, ret.err))]
    /\ UNCHANGED detector

\* The caller cancels the context it passed to Detect, or its deadline
\* passes, at any moment before the call has ended.
Cancel(c) ==
    /\ calls[c].pc # "done"
    /\ calls[c].ctx = "live"
    /\ calls' = [calls EXCEPT ![c].ctx = "cancelled", ![c].cancelledAt = calls[c].pc]
    /\ UNCHANGED detector

RecvV2(c, reply) ==
    /\ calls[c].pc = "v2_wait"
    /\ doReturns(calls[c], reply)
    /\ calls' = [calls EXCEPT ![c] = afterV2(detector, @, reply)]
    /\ UNCHANGED detector

RecvV1(c, reply) ==
    /\ calls[c].pc = "v1_wait"
    /\ doReturns(calls[c], reply)
    /\ calls' = [calls EXCEPT ![c] = afterV1(detector, @, reply)]
    /\ UNCHANGED detector

ReadBody(c, ok) ==
    /\ calls[c].pc = "read_body"
    /\ calls' = [calls EXCEPT ![c] = IF detector.variant = "oci"
                                       THEN ociAfterReadBody(detector, @, ok)
                                       ELSE okeAfterReadBody(detector, @, ok)]
    /\ UNCHANGED detector

RecvCert(c, reply) ==
    /\ calls[c].pc = "cert_wait"
    /\ doReturns(calls[c], reply)
    /\ calls' = [calls EXCEPT ![c] = afterCertReply(detector, @, reply)]
    /\ UNCHANGED detector

ReadCert(c, ok, strict) ==
    /\ calls[c].pc = "cert_read"
    /\ calls' = [calls EXCEPT ![c] = afterCertRead(detector, @, ok, strict)]
    /\ UNCHANGED detector

Next ==
    \/ \E variant \in {"oci", "oke"}, cfg \in Configs : NewDetector(variant, cfg)
    \/ \E variant \in {"oci", "oke"}, jpaths \in JPathLists : NewMockDetector(variant, jpaths)
    \/ \E c \in Solo : Detect(c)
    \/ \E c \in Solo, ret \in MockReturns("oci") \cup MockReturns("oke") : DetectMock(c, ret)
    \/ \E c \in Solo : Cancel(c)
    \/ \E c \in Solo, reply \in MetadataReplies : RecvV2(c, reply)
    \/ \E c \in Solo, reply \in MetadataReplies : RecvV1(c, reply)
    \/ \E c \in Solo, ok \in BOOLEAN : ReadBody(c, ok)
    \/ \E c \in Solo, reply \in CertReplies : RecvCert(c, reply)
    \/ \E c \in Solo, ok \in BOOLEAN, strict \in BOOLEAN : ReadCert(c, ok, strict)

Spec == Init /\ [][Next]_vars

(***************************************************************************)
(* Several Detect calls on one detector, concurrent or one after another:  *)
(* the steps of the calls interleave in every order, each call receiving   *)
(* its own replies.                                                        *)
(***************************************************************************)
ConcurrentConfigs == {[AttributeJPaths |-> <<[Name |-> "x", Path |-> "a.b"]>>]}
ConcurrentMetadataReplies ==
    {TransportError, Response(404, NotJSON), Response(StatusOK, TestOciBody),
     Response(StatusOK, TestOkeBody), Response(StatusOK, FoldedBody),
     Response(StatusOK, JNull)}
ConcurrentCertReplies ==
    {TransportError,
     Response(StatusOK, PEM(Certificate(<<ASN1Str("opc-tenant:tenantId")>>))),
     Response(StatusOK, PEM(Certificate(<<ASN1Str("Oracle"), ASN1Str("opc-tenant:t2")>>)))}

ConcurrentNext ==
    \/ \E variant \in {"oci", "oke"}, cfg \in ConcurrentConfigs : NewDetector(variant, cfg)
    \/ \E c \in Calls : Detect(c)
    \/ \E c \in Calls, reply \in ConcurrentMetadataReplies : RecvV2(c, reply)
    \/ \E c \in Calls, reply \in ConcurrentMetadataReplies : RecvV1(c, reply)
    \/ \E c \in Calls, ok \in BOOLEAN : ReadBody(c, ok)
    \/ \E c \in Calls, reply \in ConcurrentCertReplies : RecvCert(c, reply)
    \/ \E c \in Calls, ok \in BOOLEAN, strict \in BOOLEAN : ReadCert(c, ok, strict)

ConcurrentSpec == Init /\ [][ConcurrentNext]_vars

(***************************************************************************)
(* Properties                                                              *)
(***************************************************************************)
Done(c) == calls[c].pc = "done"
OnReal == detector # Nil /\ detector.provider.kind = "real"
OnMock == detector # Nil /\ detector.provider.kind = "mock"
\* Metadata returned a response and no error
MetadataOK(c) ==
    /\ Done(c) /\ calls[c].ret.state = "returned"
    /\ calls[c].ret.err = NoError /\ calls[c].ret.resp # Nil
\* Metadata returned an error
MetadataFailed(c) ==
    Done(c) /\ calls[c].ret.state = "returned" /\ calls[c].ret.err # NoError
\* the attributes as a set of <<key, value>> pairs
AttrSet(attrs) == {<<attrs[i].k, attrs[i].v>> : i \in DOMAIN attrs}

\* C1: for the OCI and the OKE detector and every JPath configuration, when
\* the provider's Metadata call returns an error (with or without a
\* response), Detect returns no attributes, the empty schema URL and a nil
\* error.
C1_DetectSwallowsProviderError ==
    \A c \in Calls :
        MetadataFailed(c) =>
            /\ calls[c].out.state = "returned"
            /\ calls[c].out.attrs = <<>>
            /\ calls[c].out.schemaURL = ""
            /\ calls[c].out.err = NoError

\* C1's case: an OCI detector with a JPath entry that resolves in the
\* response its mock provider returns together with an error.
C1_Witness ==
    \E c \in Calls :
        /\ OnMock /\ detector.variant = "oci" /\ MetadataFailed(c)
        /\ calls[c].ret.resp # Nil
        /\ Len(detector.attributeJPaths) > 0
        /\ gjsonGet(calls[c].ret.resp.RawResponse, detector.attributeJPaths[1].Path).exists
        /\ calls[c].out.state = "returned"

\* C2: a Detect call on a detector wired to its real provider, whatever the
\* endpoints answer, completes normally with a nil error: it never panics.
C2_DetectNeverCrashes ==
    \A c \in Calls :
        (OnReal /\ Done(c)) =>
            /\ calls[c].ret.state = "returned"
            /\ calls[c].out.state = "returned"
            /\ calls[c].out.err = NoError

\* C3: a Metadata call of either provider ends with a response and no error,
\* or with no response and an error, and in no other way.
C3_MetadataAllOrNothing ==
    \A c \in Calls :
        (OnReal /\ Done(c)) =>
            /\ calls[c].ret.state = "returned"
            /\ \/ calls[c].ret.resp # Nil /\ calls[c].ret.err = NoError
               \/ calls[c].ret.resp = Nil /\ calls[c].ret.err # NoError

\* C4: the OCI detector without JPath entries returns, for every response
\* its provider returns without error, the schema URL, a nil error and
\* exactly the nine canonical attributes, cloud.platform = "oci_compute"
\* among them.
C4_OciCanonicalTable ==
    \A c \in Calls :
        (MetadataOK(c) /\ detector.variant = "oci" /\ detector.attributeJPaths = <<>>) =>
            LET r == calls[c].ret.resp
            IN  /\ calls[c].out.state = "returned"
                /\ calls[c].out.schemaURL = SchemaURL
                /\ calls[c].out.err = NoError
                /\ Len(calls[c].out.attrs) = 9
                /\ AttrSet(calls[c].out.attrs) =
                      {<<"cloud.provider", "oci">>, <<"cloud.platform", "oci_compute">>,
                       <<"cloud.account.id", r.TenantId>>,
                       <<"cloud.region", r.CanonicalRegionName>>,
                       <<"cloud.availability_zone", r.AvailabilityDomain>>,
                       <<"host.id", r.Id>>, <<"host.image.id", r.Image>>,
                       <<"oci.compartment.id", r.CompartmentId>>,
                       <<"oci.shape", r.Shape>>}

\* C5: the OKE detector returns, for every response its provider returns
\* without error, the schema URL, a nil error and exactly the seven
\* attributes cloud.provider, cloud.platform = "oci_oke", cloud.region,
\* k8s.cluster.name, cloud.account.id, oci.oke.clusterid, oci.oke.k8version.
C5_OkeCanonicalTable ==
    \A c \in Calls :
        (MetadataOK(c) /\ detector.variant = "oke") =>
            LET r == calls[c].ret.resp
            IN  /\ calls[c].out.state = "returned"
                /\ calls[c].out.schemaURL = SchemaURL
                /\ calls[c].out.err = NoError
                /\ Len(calls[c].out.attrs) = 7
                /\ AttrSet(calls[c].out.attrs) =
                      {<<"cloud.provider", "oci">>, <<"cloud.platform", "oci_oke">>,
                       <<"cloud.region", r.CanonicalRegionName>>,
                       <<"k8s.cluster.name", r.Metadata.OkeClusterDisplayName>>,
                       <<"cloud.account.id", r.Metadata.OkeTenancyId>>,
                       <<"oci.oke.clusterid", r.Metadata.OkeClusterId>>,
                       <<"oci.oke.k8version", r.Metadata.OkeK8Version>>}

\* C5's case: the OKE detector returned the attributes of a response whose
\* fields all differ.
C5_Witness ==
    \E c \in Calls :
        /\ MetadataOK(c) /\ detector.variant = "oke"
        /\ calls[c].ret.resp = TestOkeResponse
        /\ calls[c].out.state = "returned"
        /\ Len(calls[c].out.attrs) = 7

(***************************************************************************)
(* What a body decodes to, stated from the JSON value: a field holds the   *)
(* member that matches it when that member has the field's type, and the   *)
(* zero value otherwise.                                                   *)
(***************************************************************************)
expString(m, n) ==
    LET x == fieldMember(m, n) IN IF x # Nil /\ x.t = "string" THEN x.s ELSE ""
expFloat(m, n) ==
    LET x == fieldMember(m, n)
    IN  IF x # Nil /\ x.t = "number" THEN [n |-> x.n, frac |-> x.frac] ELSE NumZero
expInt(m, n) ==
    LET x == fieldMember(m, n) IN IF x # Nil /\ x.t = "number" THEN x.n ELSE 0
expShapeConfig(m) ==
    LET x == fieldMember(m, "shapeConfig")
    IN  IF x # Nil /\ x.t = "object"
        THEN [OCpus |-> expFloat(x.m, "ocpus"),
              MemoryInGBs |-> expFloat(x.m, "memoryInGBs"),
              NetworkingBandwidthInGbps |-> expFloat(x.m, "networkingBandwidthInGbps"),
              MaxVnicAttachments |-> expInt(x.m, "maxVnicAttachments")]
        ELSE ZeroShapeConfig
expOkeMetadata(m) ==
    LET x == fieldMember(m, "metadata")
    IN  IF x # Nil /\ x.t = "object"
        THEN [f \in DOMAIN OkeMetadataJSONNames |-> expString(x.m, OkeMetadataJSONNames[f])]
        ELSE ZeroOkeMetadata

\* every member that matches a field has the field's JSON type or is null
stringTyped(m, names) ==
    \A n \in names :
        LET x == fieldMember(m, n) IN x = Nil \/ x.t \in {"string", "null"}
shapeTyped(m) ==
    LET x == fieldMember(m, "shapeConfig")
    IN  \/ x = Nil
        \/ x.t = "null"
        \/ /\ x.t = "object"
           /\ \A n \in {"ocpus", "memoryInGBs", "networkingBandwidthInGbps"} :
                 LET y == fieldMember(x.m, n) IN y = Nil \/ y.t \in {"number", "null"}
           /\ LET y == fieldMember(x.m, "maxVnicAttachments")
              IN  y = Nil \/ y.t = "null" \/ (y.t = "number" /\ ~y.frac)
okeMetadataTyped(m) ==
    LET x == fieldMember(m, "metadata")
    IN  \/ x = Nil
        \/ x.t = "null"
        \/ x.t = "object"
           /\ stringTyped(x.m, {OkeMetadataJSONNames[f] : f \in DOMAIN OkeMetadataJSONNames})
typedObject(variant, body) ==
    /\ body.t = "object"
    /\ shapeTyped(body.m)
    /\ IF variant = "oci"
       THEN stringTyped(body.m, {OciJSONNames[f] : f \in DOMAIN OciJSONNames})
       ELSE /\ stringTyped(body.m, {CommonJSONNames[f] : f \in DOMAIN CommonJSONNames})
            /\ okeMetadataTyped(body.m)

\* the certificate step of call c succeeded: a 200 reply, read to the end,
\* holding a PEM block that is a certificate with string subject values
certStepSucceeds(c) ==
    /\ calls[c].cert.kind = "response" /\ calls[c].cert.status = StatusOK
    /\ calls[c].certRead = "ok"
    /\ calls[c].cert.body.t = "pem"
    /\ calls[c].cert.body.der.t = "certificate"
    /\ \A i \in DOMAIN calls[c].cert.body.der.names : calls[c].cert.body.der.names[i].isString
\* the tenancy id the certificate call c received yields
certTenant(c) == scanNames(calls[c].cert.body.der.names, 1).v

\* resp holds, field for field, what body decodes to (TenantId apart)
fieldsEqualBody(variant, resp, body) ==
    /\ \A f \in DOMAIN CommonJSONNames : resp[f] = expString(body.m, CommonJSONNames[f])
    /\ resp.ShapeConfig = expShapeConfig(body.m)
    /\ variant = "oke" => resp.Metadata = expOkeMetadata(body.m)

\* the version-2 endpoint replied 200 and the body was read to its end
primaryBodyRead(c) ==
    /\ calls[c].v2.kind = "response" /\ calls[c].v2.status = StatusOK
    /\ calls[c].bodyRead = "ok"

\* C6 as stated: for every well-formed JSON body the version-2 endpoint
\* returns with 200, Metadata returns, without error, a response whose
\* fields equal the decoded JSON, the OCI tenancy id being the
\* certificate's.
C6_AsStated ==
    \A c \in Calls :
        (OnReal /\ Done(c) /\ primaryBodyRead(c) /\ calls[c].v2.body.t # "invalid") =>
            /\ MetadataOK(c)
            /\ calls[c].v2.body.t = "object"
            /\ fieldsEqualBody(detector.variant, calls[c].ret.resp, calls[c].v2.body)
            /\ detector.variant = "oci" =>
                  certStepSucceeds(c) /\ calls[c].ret.resp.TenantId = certTenant(c)

\* C6 amended: for every JSON object whose members have the types of the
\* fields they match, returned with 200 by the version-2 endpoint and read
\* to its end, and, for the OCI provider, when the certificate step
\* succeeds, Metadata returns without error a response whose every field
\* equals the decoded member (the zero value for an absent or null one),
\* the OCI tenancy id being the one extracted from the certificate.
C6_DecodedFieldForField ==
    \A c \in Calls :
        ( /\ OnReal /\ Done(c) /\ primaryBodyRead(c)
          /\ typedObject(detector.variant, calls[c].v2.body)
          /\ detector.variant = "oci" => certStepSucceeds(c) ) =>
            /\ MetadataOK(c)
            /\ fieldsEqualBody(detector.variant, calls[c].ret.resp, calls[c].v2.body)
            /\ detector.variant = "oci" => calls[c].ret.resp.TenantId = certTenant(c)

\* C6's case: the OCI provider decoded a body that has a TenantId member
\* and members matched case-insensitively, and the certificate gave
\* another tenancy id.
C6_Witness ==
    \E c \in Calls :
        /\ OnReal /\ detector.variant = "oci" /\ MetadataOK(c) /\ primaryBodyRead(c)
        /\ calls[c].v2.body = FoldedBody
        /\ certStepSucceeds(c)
        /\ calls[c].ret.resp.TenantId = "t2"
        /\ calls[c].ret.resp.Region = "r1"

(***************************************************************************)
(* The call that receives body with 200 from the version-2 endpoint and    *)
(* then the same inputs as another call: the read outcome, the certificate *)
(* reply and its read outcome, on the same toolchain.                      *)
(***************************************************************************)
directRun(d, body, readOK, certReply, certReadOK, strict) ==
    LET c0 == startMetadata(d, idleCall)
        c1 == afterV2(d, c0, Response(StatusOK, body))
        c2 == IF d.variant = "oci" THEN ociAfterReadBody(d, c1, readOK)
              ELSE okeAfterReadBody(d, c1, readOK)
        c3 == IF c2.pc = "cert_wait" THEN afterCertReply(d, c2, certReply) ELSE c2
    IN  IF c3.pc = "cert_read" THEN afterCertRead(d, c3, certReadOK, strict) ELSE c3

\* the fallback was taken and the version-1 endpoint replied 200 with JSON
fallbackServed(c) ==
    /\ calls[c].v2.kind = "response" /\ calls[c].v2.status # StatusOK
    /\ calls[c].v1.kind = "response" /\ calls[c].v1.status = StatusOK
    /\ calls[c].v1.body.t # "invalid"

\* C7: when the version-2 endpoint replies with a non-200 status and the
\* version-1 endpoint replies 200 with valid JSON, Metadata (and Detect
\* after it) returns exactly what the call returns that gets the same body
\* with 200 from the version-2 endpoint.
C7_FallbackTransparent ==
    \A c \in Calls :
        (OnReal /\ Done(c) /\ fallbackServed(c)) =>
            \E strict \in BOOLEAN :
                LET r == directRun(detector, calls[c].v1.body, calls[c].bodyRead = "ok",
                                   calls[c].cert, calls[c].certRead = "ok", strict)
                IN  /\ r.pc = "done"
                    /\ r.ret = calls[c].ret
                    /\ r.out = calls[c].out

\* C7's case: a fallback whose version-2 reply carried JSON of its own and
\* whose version-1 body was decoded into the response returned.
C7_Witness ==
    \E c \in Calls :
        /\ OnReal /\ MetadataOK(c) /\ fallbackServed(c)
        /\ calls[c].v2.body = TestOciBody
        /\ calls[c].v1.body = FoldedBody
        /\ calls[c].ret.resp.Region = "r1"

\* both endpoint versions failed: the first by transport, or the first by
\* status and the second by transport or status
bothVersionsFailed(c) ==
    \/ calls[c].v2.kind = "error"
    \/ /\ calls[c].v2.kind = "response" /\ calls[c].v2.status # StatusOK
       /\ \/ calls[c].v1.kind = "error"
          \/ calls[c].v1.kind = "response" /\ calls[c].v1.status # StatusOK

\* C8: if both endpoint versions fail, by non-200 status or transport error
\* in any combination, Metadata returns an error and no response.
C8_BothVersionsFail ==
    \A c \in Calls :
        (OnReal /\ Done(c) /\ bothVersionsFailed(c)) =>
            /\ calls[c].ret.state = "returned"
            /\ calls[c].ret.err # NoError
            /\ calls[c].ret.resp = Nil

\* C8's case: a non-200 version-2 reply followed by a non-200 version-1
\* reply that carries a decodable body.
C8_Witness ==
    \E c \in Calls :
        /\ OnReal /\ Done(c)
        /\ calls[c].v2.kind = "response" /\ calls[c].v2.status # StatusOK
        /\ calls[c].v1.kind = "response" /\ calls[c].v1.status # StatusOK
        /\ calls[c].v1.body = TestOciBody
        /\ calls[c].ret.err.kind = "status_v1"

\* the last reply the metadata endpoint gave call c
lastMetadataReply(c) == IF calls[c].v1 # NoReply THEN calls[c].v1 ELSE calls[c].v2

\* C9 as stated: if the body the metadata endpoint returned is not valid
\* JSON, Metadata returns a decode error and no response, whatever the
\* status code of the reply.
C9_AsStated ==
    \A c \in Calls :
        ( /\ OnReal /\ Done(c)
          /\ lastMetadataReply(c).kind = "response"
          /\ lastMetadataReply(c).body.t = "invalid"
          /\ calls[c].bodyRead # "failed" ) =>
            calls[c].ret = returns(Nil, Errorf("decode", ""))

\* C9 amended: if the body of the 200 reply Metadata reads (the version-2
\* reply, or the version-1 reply after a fallback) is not valid JSON,
\* Metadata returns a decode error and no response; the body of a non-200
\* reply is never decoded, and a call whose last metadata reply is not a
\* 200 ends with the status error of the version-1 reply.
C9_DecodeErrorOn200 ==
    \A c \in Calls :
        (OnReal /\ Done(c)) =>
            /\ ( /\ calls[c].resp # "none"
                 /\ calls[c].bodyRead = "ok"
                 /\ respBody(calls[c]).t = "invalid" ) =>
                    calls[c].ret = returns(Nil, Errorf("decode", ""))
            /\ ( /\ lastMetadataReply(c).kind = "response"
                 /\ lastMetadataReply(c).status # StatusOK ) =>
                    calls[c].ret =
                        returns(Nil, Errorf("status_v1", statusText(calls[c].v1.status)))

\* C9's case: after a fallback the version-1 endpoint replied 200 with text
\* that is not JSON, and the call ended with the decode error.
C9_Witness ==
    \E c \in Calls :
        /\ OnReal /\ Done(c)
        /\ calls[c].resp = "v1" /\ calls[c].bodyRead = "ok"
        /\ calls[c].v1.body.t = "invalid"
        /\ calls[c].ret.err.kind = "decode"

\* the request a provider sends to url
getRequest(url) == [method |-> "GET", url |-> url, Authorization |-> "Bearer Oracle"]

\* C10: when the transport call to the version-2 endpoint fails, Metadata
\* has failed with the version-2 transport error and the version-2 request
\* is the only request the call ever sent.
C10_NoFallbackOnTransportError ==
    \A c \in Calls :
        calls[c].v2.kind = "error" =>
            /\ calls[c].pc = "done"
            /\ calls[c].ret = returns(Nil, Errorf("transport_v2", ""))
            /\ calls[c].sent = <<getRequest(metadataEndpointV2)>>
            /\ calls[c].v1 = NoReply /\ calls[c].cert = NoReply

\* C10's case: a call whose version-2 request failed in transport.
C10_Witness ==
    \E c \in Calls :
        /\ OnReal /\ calls[c].v2.kind = "error" /\ Done(c)
        /\ calls[c].out.state = "returned"

\* the identity-certificate step of call c failed: by transport, by status,
\* while reading the body, on a body that holds no PEM block, or on a block
\* that is no X.509 certificate
certStepFailed(c) ==
    \/ calls[c].cert.kind = "error"
    \/ calls[c].cert.kind = "response" /\ calls[c].cert.status # StatusOK
    \/ calls[c].certRead = "failed"
    \/ calls[c].certRead = "ok" /\ calls[c].cert.body.t # "pem"
    \/ /\ calls[c].certRead = "ok" /\ calls[c].cert.body.t = "pem"
       /\ calls[c].cert.body.der.t # "certificate"

\* C11: in the OCI provider, when the identity-certificate step fails
\* (transport error, non-200 status, body-read failure, body that is not
\* PEM, PEM block that is no certificate), the Metadata call has ended with
\* a certificate error and no response, although the metadata body had been
\* read and decoded without error; Detect then returns nothing.
C11_CertFailureFailsCall ==
    \A c \in Calls :
        (OnReal /\ certStepFailed(c)) =>
            /\ detector.variant = "oci"
            /\ calls[c].pc = "done"
            /\ calls[c].bodyRead = "ok" /\ ~UnmarshalOci(respBody(calls[c])).err
            /\ calls[c].ret.state = "returned"
            /\ calls[c].ret.resp = Nil
            /\ calls[c].ret.err.kind = "certificate"
            /\ calls[c].out = Returned(<<>>, "")

\* C11's case: the metadata body decoded into a response, and the
\* certificate endpoint answered with a status that is not 200.
C11_Witness ==
    \E c \in Calls :
        /\ OnReal /\ certStepFailed(c)
        /\ calls[c].metadata # Nil /\ calls[c].metadata.Region = "region"
        /\ calls[c].cert.kind = "response" /\ calls[c].cert.status = 404
        /\ calls[c].ret.err = Errorf("certificate", "404 Not Found")

(***************************************************************************)
(* The tenancy id a subject holds, stated from the list of values: the     *)
(* text after the prefix in the first string value that starts with it.    *)
(***************************************************************************)
\* the positions of the string values that start with "opc-tenant:"
tenantPositions(names) ==
    {i \in DOMAIN names : names[i].isString /\ HasPrefix(names[i].s, TenantPrefix)}
firstTenantPosition(names) ==
    CHOOSE i \in tenantPositions(names) : \A j \in tenantPositions(names) : i <= j
\* the subject holds no tenancy id: no value has the prefix, or nothing
\* follows the prefix in the first that has it
tenantAbsent(names) ==
    \/ tenantPositions(names) = {}
    \/ names[firstTenantPosition(names)].s = TenantPrefix

\* the certificate endpoint replied 200 with a PEM block holding a
\* certificate, and the body was read to its end
certReceived(c) ==
    /\ calls[c].cert.kind = "response" /\ calls[c].cert.status = StatusOK
    /\ calls[c].certRead = "ok"
    /\ calls[c].cert.body.t = "pem"
    /\ calls[c].cert.body.der.t = "certificate"

\* C12 as stated: every response the OCI provider returns without error
\* has a non-empty tenancy id.
C12_AsStated ==
    \A c \in Calls :
        (OnReal /\ detector.variant = "oci" /\ MetadataOK(c)) =>
            calls[c].ret.resp.TenantId # ""

\* C12 amended: the OCI provider returns a response without error only
\* after it received and parsed a certificate, and the tenancy id of the
\* response is empty exactly when the certificate's subject holds none (no
\* value starts with "opc-tenant:", or the first that does ends there); a
\* tenancy id present in the metadata body is never kept in its place.
C12_TenancyEmptyIffAbsentInCertificate ==
    \A c \in Calls :
        (OnReal /\ detector.variant = "oci" /\ MetadataOK(c)) =>
            /\ certReceived(c)
            /\ calls[c].ret.resp.TenantId = "" <=>
                  tenantAbsent(calls[c].cert.body.der.names)

\* C12's case: the metadata body carried a tenancy id, the certificate's
\* subject has no value with the prefix, and the response was returned
\* with an empty tenancy id and no error.
C12_Witness ==
    \E c \in Calls :
        /\ OnReal /\ detector.variant = "oci" /\ MetadataOK(c)
        /\ respBody(calls[c]) = TestOciBody
        /\ calls[c].cert.body.der.names = <<ASN1Str("Oracle")>>
        /\ calls[c].ret.resp.TenantId = ""
        /\ calls[c].out.state = "returned"

\* the tenancy id C13 describes for a subject: the remainder of the first
\* value that starts with the prefix, the empty string when there is none
tenantOf(names) ==
    IF tenantPositions(names) = {} THEN ""
    ELSE sliceFrom(names[firstTenantPosition(names)].s, Len(chars[TenantPrefix]))

\* the certificate call c received was parsed and handed to the
\* extraction: the call ended past the certificate step's own errors
extractionRan(c) ==
    /\ OnReal /\ Done(c) /\ certReceived(c)
    /\ calls[c].metadata # Nil
    /\ calls[c].ret.err = NoError

\* C13: the extraction, run on a parsed certificate, returns the remainder
\* after "opc-tenant:" of the first subject value that starts with it, and
\* the empty string when no value has the prefix; it returns normally in
\* both cases.
C13_TenancyExtraction ==
    \A c \in Calls :
        extractionRan(c) =>
            /\ calls[c].ret.state = "returned"
            /\ calls[c].ret.resp.TenantId = tenantOf(calls[c].cert.body.der.names)

\* C13 on the certificates whose subject values are all strings: the
\* extraction returns what C13 describes.
C13_HoldsOnStringSubjects ==
    \A c \in Calls :
        (extractionRan(c) /\ certStepSucceeds(c)) =>
            /\ calls[c].ret.state = "returned"
            /\ calls[c].ret.resp.TenantId = tenantOf(calls[c].cert.body.der.names)

\* entry i of jpaths is the last entry with its name whose path resolves in raw
lastResolving(jpaths, raw, i) ==
    /\ gjsonGet(raw, jpaths[i].Path).exists
    /\ \A j \in DOMAIN jpaths :
          (j > i /\ jpaths[j].Name = jpaths[i].Name) =>
              ~gjsonGet(raw, jpaths[j].Path).exists
\* no entry of jpaths named name has a path that resolves in raw
noneResolves(jpaths, raw, name) ==
    \A j \in DOMAIN jpaths :
        jpaths[j].Name = name => ~gjsonGet(raw, jpaths[j].Path).exists
\* the keys of the canonical attributes of the OCI detector
ociCanonicalKeys ==
    {"cloud.provider", "cloud.platform", "cloud.account.id", "cloud.region",
     "cloud.availability_zone", "host.id", "host.image.id", "oci.compartment.id",
     "oci.shape"}
attrKeys(attrs) == {attrs[i].k : i \in DOMAIN attrs}

\* C14: after a successful Metadata call of the OCI provider, for every
\* configured pair (name, path) whose path resolves in the body the
\* metadata endpoint returned, Detect's attributes hold "oci."+name with the
\* value found there; a pair whose path does not resolve adds no key, and
\* Detect returns without error either way.
C14_JPathFromRawBody ==
    \A c \in Calls :
        (OnReal /\ detector.variant = "oci" /\ MetadataOK(c)) =>
            LET jpaths == detector.attributeJPaths
                raw == respBody(calls[c])
            IN  /\ calls[c].out.state = "returned"
                /\ calls[c].out.err = NoError
                /\ \A i \in DOMAIN jpaths :
                      LET key == concat(attributePrefix, jpaths[i].Name)
                      IN  /\ lastResolving(jpaths, raw, i) =>
                                <<key, gjsonGet(raw, jpaths[i].Path).str>>
                                    \in AttrSet(calls[c].out.attrs)
                          /\ ( /\ noneResolves(jpaths, raw, jpaths[i].Name)
                               /\ key \notin ociCanonicalKeys ) =>
                                key \notin attrKeys(calls[c].out.attrs)

\* C15: in the attributes the OCI detector returns, "oci."+name holds, for
\* every output name, the value of the last configured entry with that name
\* whose path resolves in the document Detect queries (the response's
\* RawResponse): later resolving entries overwrite earlier ones, entries
\* that do not resolve leave the earlier value in place, and no key occurs
\* twice.
C15_JPathLastWriteWins ==
    \A c \in Calls :
        (detector # Nil /\ detector.variant = "oci" /\ MetadataOK(c)) =>
            LET jpaths == detector.attributeJPaths
                raw == calls[c].ret.resp.RawResponse
            IN  /\ calls[c].out.state = "returned"
                /\ Cardinality(attrKeys(calls[c].out.attrs)) = Len(calls[c].out.attrs)
                /\ \A i \in DOMAIN jpaths :
                      lastResolving(jpaths, raw, i) =>
                          <<concat(attributePrefix, jpaths[i].Name),
                            gjsonGet(raw, jpaths[i].Path).str>>
                              \in AttrSet(calls[c].out.attrs)

\* C15's case: three entries share the name "x"; the first two resolve to
\* different values and the last does not resolve; oci.x holds the second
\* entry's value.
C15_Witness ==
    \E c \in Calls :
        /\ detector # Nil /\ detector.variant = "oci" /\ MetadataOK(c)
        /\ detector.attributeJPaths =
              <<[Name |-> "x", Path |-> "a.b"], [Name |-> "x", Path |-> "a.c"],
                [Name |-> "x", Path |-> "a.z"]>>
        /\ calls[c].ret.resp.RawResponse = FoldedBody
        /\ <<"oci.x", "w">> \in AttrSet(calls[c].out.attrs)

(***************************************************************************)
(* The call that runs alone on detector d and receives the given replies   *)
(* and read outcomes, on the same toolchain.                               *)
(***************************************************************************)
aloneRun(d, v2, v1, readOK, certReply, certReadOK, strict) ==
    LET c0 == startMetadata(d, idleCall)
        c1 == afterV2(d, c0, v2)
        c2 == IF c1.pc = "v1_wait" THEN afterV1(d, c1, v1) ELSE c1
        c3 == IF c2.pc # "read_body" THEN c2
              ELSE IF d.variant = "oci" THEN ociAfterReadBody(d, c2, readOK)
              ELSE okeAfterReadBody(d, c2, readOK)
        c4 == IF c3.pc = "cert_wait" THEN afterCertReply(d, c3, certReply) ELSE c3
    IN  IF c4.pc = "cert_read" THEN afterCertRead(d, c4, certReadOK, strict) ELSE c4

\* what Detect makes of the value Metadata returned to this very call
ownAttributes(d, ret) ==
    IF d.variant = "oci" THEN ociDetect(ret, d.attributeJPaths) ELSE okeDetect(ret)

\* C16: under every interleaving of the steps of the Detect calls made on
\* a detector, each call that has ended returned what the call run alone
\* on the replies it received returns (the same requests, the same
\* Metadata result, the same Detect result), and its attributes are those
\* of the response Metadata returned to it and of no other call.
C16_ConcurrentCallsIndependent ==
    \A c \in Calls :
        (OnReal /\ Done(c)) =>
            /\ \E strict \in BOOLEAN :
                  LET r == aloneRun(detector, calls[c].v2, calls[c].v1,
                                    calls[c].bodyRead = "ok", calls[c].cert,
                                    calls[c].certRead = "ok", strict)
                  IN  /\ r.pc = "done"
                      /\ r.sent = calls[c].sent
                      /\ r.ret = calls[c].ret
                      /\ r.out = calls[c].out
            /\ calls[c].ret.state = "returned" =>
                  calls[c].out = ownAttributes(detector, calls[c].ret)

\* C16's case: two calls on one OCI detector, each begun before the other
\* ended, received different bodies and certificates and returned
\* different attributes.
C16_Witness ==
    /\ OnReal /\ detector.variant = "oci"
    /\ MetadataOK(1) /\ MetadataOK(2)
    /\ calls[1].prior = 0 /\ calls[2].prior = 0
    /\ calls[1].ret.resp.TenantId = "tenantId" /\ calls[2].ret.resp.TenantId = "t2"
    /\ calls[1].v2.body = TestOciBody /\ calls[2].v2.body = FoldedBody
    /\ <<"cloud.account.id", "tenantId">> \in AttrSet(calls[1].out.attrs)
    /\ <<"cloud.account.id", "t2">> \in AttrSet(calls[2].out.attrs)

\* where a call stands while one of its requests is in flight
InFlight == {"v2_wait", "v1_wait", "cert_wait"}
\* the context of call c was cancelled while a request was in flight
cancelledInFlight(c) ==
    calls[c].ctx = "cancelled" /\ calls[c].cancelledAt \in InFlight
\* the requests call c had sent when its context was cancelled in flight
sentWhenCancelled(c) ==
    CASE calls[c].cancelledAt = "v2_wait" -> 1
      [] calls[c].cancelledAt = "v1_wait" -> 2
      [] OTHER -> IF calls[c].v1 = NoReply THEN 2 ELSE 3
\* the reply to the request that was in flight when call c was cancelled
replyWhenCancelled(c) ==
    CASE calls[c].cancelledAt = "v2_wait" -> calls[c].v2
      [] calls[c].cancelledAt = "v1_wait" -> calls[c].v1
      [] OTHER -> calls[c].cert

\* C17: once the context of a call is cancelled while one of its requests
\* is in flight, that request ends with the transport error, the call
\* sends no further request and its next step is its end: Metadata returns
\* an error and no response, and Detect returns no attributes, the empty
\* schema URL and a nil error.
C17_CancelAbortsCall ==
    \A c \in Calls :
        (OnReal /\ cancelledInFlight(c)) =>
            /\ Len(calls[c].sent) = sentWhenCancelled(c)
            /\ replyWhenCancelled(c) \in {NoReply, TransportError}
            /\ calls[c].pc \in {calls[c].cancelledAt, "done"}
            /\ calls[c].pc = "done" =>
                  /\ replyWhenCancelled(c) = TransportError
                  /\ calls[c].ret.state = "returned"
                  /\ calls[c].ret.resp = Nil
                  /\ calls[c].ret.err.kind \in {"transport_v2", "transport_v1", "certificate"}
                  /\ calls[c].out = Returned(<<>>, "")

\* C17's case: after a fallback the metadata body was decoded, the context
\* was cancelled while the certificate request was in flight, and the call
\* ended.
C17_Witness ==
    \E c \in Calls :
        /\ OnReal /\ cancelledInFlight(c) /\ Done(c)
        /\ calls[c].cancelledAt = "cert_wait"
        /\ calls[c].resp = "v1" /\ calls[c].metadata # Nil
        /\ Len(calls[c].sent) = 3
        /\ calls[c].ret = returns(Nil, Errorf("certificate", "transport"))
        /\ calls[c].out = Returned(<<>>, "")

requestsTo(sent, url) == {i \in DOMAIN sent : sent[i].url = url}

\* C19: a Metadata call of either provider sends at most one request to the
\* version-2 endpoint and at most one to the version-1 endpoint; the
\* version-1 request is sent only after the version-2 request was answered
\* with a status that is not 200; and once the version-1 endpoint answers
\* with a status that is not 200 the call has ended with the status error
\* carrying that status text, having sent those two requests and no other.
C19_OneRequestPerVersion ==
    \A c \in Calls :
        OnReal =>
            /\ Cardinality(requestsTo(calls[c].sent, metadataEndpointV2)) <= 1
            /\ Cardinality(requestsTo(calls[c].sent, metadataEndpointV1)) <= 1
            /\ requestsTo(calls[c].sent, metadataEndpointV1) # {} =>
                  /\ calls[c].v2.kind = "response" /\ calls[c].v2.status # StatusOK
                  /\ calls[c].sent[1].url = metadataEndpointV2
                  /\ calls[c].sent[2].url = metadataEndpointV1
            /\ (calls[c].v1.kind = "response" /\ calls[c].v1.status # StatusOK) =>
                  /\ calls[c].pc = "done"
                  /\ calls[c].ret =
                        returns(Nil, Errorf("status_v1", statusText(calls[c].v1.status)))
                  /\ calls[c].sent =
                        <<getRequest(metadataEndpointV2), getRequest(metadataEndpointV1)>>

\* C19's case: the version-2 endpoint answered 404, the version-1 endpoint
\* 204, and the call ended with the error that carries "204 No Content".
C19_Witness ==
    \E c \in Calls :
        /\ OnReal /\ Done(c)
        /\ calls[c].v2.kind = "response" /\ calls[c].v2.status = 404
        /\ calls[c].v1.kind = "response" /\ calls[c].v1.status = 204
        /\ calls[c].ret.err = Errorf("status_v1", "204 No Content")
        /\ Len(calls[c].sent) = 2

\* the replies call c itself received let a Metadata call succeed: a 200
\* metadata reply, read and decoded, and for the OCI provider a certificate
\* that was received and parsed
ownRepliesSucceed(c) ==
    /\ calls[c].resp # "none" /\ calls[c].bodyRead = "ok"
    /\ IF detector.variant = "oci"
       THEN /\ ~UnmarshalOci(respBody(calls[c])).err
            /\ certReceived(c)
       ELSE ~UnmarshalOke(respBody(calls[c])).err
\* the response the replies of call c decode to
ownResponse(c) ==
    IF detector.variant = "oci"
    THEN [UnmarshalOci(respBody(calls[c])).ptr
            EXCEPT !.TenantId = tenantOf(calls[c].cert.body.der.names)]
    ELSE UnmarshalOke(respBody(calls[c])).ptr
\* call c sent its own requests and its outcome follows from its own
\* replies: it succeeds exactly when they allow it and returns what they
\* decode to (a call that panicked did so on the body it received itself)
ownOutcome(c) ==
    /\ calls[c].sent # <<>>
    /\ calls[c].sent[1] = getRequest(metadataEndpointV2)
    /\ IF calls[c].ret.state = "panicked"
       THEN ownRepliesSucceed(c) /\ UnmarshalOci(respBody(calls[c])).ptr = Nil
       ELSE /\ calls[c].ret.err = NoError <=> ownRepliesSucceed(c)
            /\ calls[c].ret.err = NoError => calls[c].ret.resp = ownResponse(c)
            /\ calls[c].ret.err # NoError => calls[c].ret.resp = Nil

\* C20: whatever calls were made on the provider before, every Metadata
\* call that has ended sent its own requests, succeeded exactly when the
\* replies it received itself allow it, and returned the response those
\* replies decode to; and no step changes the detector or its provider
\* (endpoint addresses) once built.
C20_NoCaching ==
    /\ [](\A c \in Calls : (OnReal /\ Done(c)) => ownOutcome(c))
    /\ [][detector # Nil => detector' = detector]_vars

\* C20's case: a call succeeded; a second call, begun after the first had
\* ended, failed on its own version-2 request; the first call's response is
\* not returned again.
C20_Witness ==
    \E c, e \in Calls :
        /\ OnReal /\ MetadataOK(e) /\ calls[e].prior = 0
        /\ Done(c) /\ calls[c].prior = 1
        /\ calls[c].v2 = TransportError
        /\ calls[c].ret = returns(Nil, Errorf("transport_v2", ""))
        /\ detector.provider = (IF detector.variant = "oci" THEN NewOciProvider
                                ELSE NewOkeProvider)

\* the metadata step of call c failed: by transport, by status on both
\* versions, while reading the body, or in decoding it
metadataStepFailed(c) ==
    \/ calls[c].v2.kind = "error"
    \/ calls[c].v1.kind = "error"
    \/ calls[c].v1.kind = "response" /\ calls[c].v1.status # StatusOK
    \/ calls[c].bodyRead = "failed"
    \/ /\ calls[c].bodyRead = "ok"
       /\ IF detector.variant = "oci" THEN UnmarshalOci(respBody(calls[c])).err
          ELSE UnmarshalOke(respBody(calls[c])).err

\* C21: the OCI provider asks the identity-certificate endpoint at most
\* once in a Metadata call, and only as its last request, after it read the
\* body of a 200 metadata reply to its end and decoded it without error;
\* when the metadata step fails no certificate request is sent; the OKE
\* provider asks the metadata endpoints only.
C21_CertOnlyAfterDecode ==
    \A c \in Calls :
        OnReal =>
            LET certRequests == requestsTo(calls[c].sent, identityCertEndpoint)
            IN  /\ Cardinality(certRequests) <= 1
                /\ certRequests # {} =>
                      /\ detector.variant = "oci"
                      /\ certRequests = {Len(calls[c].sent)}
                      /\ calls[c].resp # "none"
                      /\ (IF calls[c].resp = "v2" THEN calls[c].v2 ELSE calls[c].v1).status
                            = StatusOK
                      /\ calls[c].bodyRead = "ok"
                      /\ ~UnmarshalOci(respBody(calls[c])).err
                /\ certRequests = {} => calls[c].cert = NoReply
                /\ metadataStepFailed(c) => certRequests = {} /\ calls[c].pc = "done"
                /\ detector.variant = "oke" =>
                      \A i \in DOMAIN calls[c].sent :
                          calls[c].sent[i].url \in {metadataEndpointV2, metadataEndpointV1}

\* C21's case: after a fallback the OCI provider decoded the version-1
\* body and then sent the certificate request, its third and last.
C21_Witness ==
    \E c \in Calls :
        /\ OnReal /\ detector.variant = "oci" /\ Done(c)
        /\ calls[c].resp = "v1" /\ calls[c].metadata # Nil
        /\ Len(calls[c].sent) = 3
        /\ calls[c].sent[3] = getRequest(identityCertEndpoint)
        /\ calls[c].cert # NoReply

\* the subject of the certificate call c received holds a value that is
\* not a string
nonStringSubject(c) ==
    \E i \in DOMAIN calls[c].cert.body.der.names :
        ~calls[c].cert.body.der.names[i].isString

\* C22: on a parsed certificate whose subject holds a value that is not a
\* string, the extraction passes over that value as over one without the
\* prefix and returns the tenancy id of the first string value that has
\* the prefix, or the empty string; the call does not panic.
C22_NonStringValuesSkipped ==
    \A c \in Calls :
        (extractionRan(c) /\ nonStringSubject(c)) =>
            /\ calls[c].ret.state = "returned"
            /\ calls[c].out.state = "returned"
            /\ calls[c].ret.resp.TenantId = tenantOf(calls[c].cert.body.der.names)

\* C23: every request a provider has sent in a Metadata call is a GET to
\* one of its endpoints that carries Authorization: "Bearer Oracle", and
\* every reply the call received answers such a request: the version-2
\* reply the first request, the version-1 reply the second, the
\* certificate reply the last.
C23_EveryRequestGetWithBearer ==
    \A c \in Calls :
        OnReal =>
            /\ \A i \in DOMAIN calls[c].sent :
                  /\ calls[c].sent[i].method = "GET"
                  /\ calls[c].sent[i].Authorization = "Bearer Oracle"
                  /\ calls[c].sent[i].url \in
                        {metadataEndpointV2, metadataEndpointV1, identityCertEndpoint}
            /\ calls[c].v2 # NoReply =>
                  calls[c].sent[1] = getRequest(metadataEndpointV2)
            /\ calls[c].v1 # NoReply =>
                  calls[c].sent[2] = getRequest(metadataEndpointV1)
            /\ calls[c].cert # NoReply =>
                  calls[c].sent[Len(calls[c].sent)] = getRequest(identityCertEndpoint)

\* C23's case: an OCI call that sent all three requests: version 2, the
\* version-1 fallback and the certificate request.
C23_Witness ==
    \E c \in Calls :
        /\ OnReal /\ Done(c)
        /\ calls[c].sent =
              <<getRequest(metadataEndpointV2), getRequest(metadataEndpointV1),
                getRequest(identityCertEndpoint)>>
        /\ calls[c].cert.kind = "response"

\* the HTTP responses call c received (a transport error delivers none)
responsesReceived(c) ==
    {r \in {"v2", "v1", "cert"} :
        (CASE r = "v2" -> calls[c].v2 [] r = "v1" -> calls[c].v1
           [] OTHER -> calls[c].cert).kind = "response"}

\* C24: when a Metadata call has returned, on whatever path, the body of
\* every HTTP response it received has been closed: the non-200 version-2
\* reply behind a fallback, the non-200 version-1 reply, the metadata reply
\* that was read, and the certificate reply.
C24_EveryBodyClosed ==
    \A c \in Calls :
        (OnReal /\ Done(c)) => responsesReceived(c) \subseteq calls[c].closed

\* what C24 leaves standing: the body of the 200 metadata reply the call
\* went on to read is closed when the call returns, and no other body is.
C24_OnlyReadBodyClosed ==
    \A c \in Calls :
        (OnReal /\ Done(c)) =>
            calls[c].closed = IF calls[c].resp = "none" THEN {} ELSE {calls[c].resp}

\* the tenancy id the metadata body of call c supplies: its member that
\* matches the TenantId field, the empty string when it has none
bodyTenant(c) == expString(respBody(calls[c]).m, "TenantId")

\* C25: the tenancy id of every response the OCI provider returns without
\* error is the one its certificate yields (the text after "opc-tenant:"
\* in the first subject value that has the prefix, else the empty string),
\* whatever tenancy id the metadata body supplies.
C25_TenantIdFromCertificate ==
    \A c \in Calls :
        (OnReal /\ detector.variant = "oci" /\ MetadataOK(c)) =>
            /\ certReceived(c)
            /\ calls[c].ret.resp.TenantId = tenantOf(calls[c].cert.body.der.names)
            /\ calls[c].ret.resp.TenantId = calls[c].metadata.TenantId

\* C25's case: the body supplied the tenancy id "tenantId" and the
\* certificate another one; the response holds the certificate's.
C25_Witness ==
    \E c \in Calls :
        /\ OnReal /\ detector.variant = "oci" /\ MetadataOK(c)
        /\ bodyTenant(c) = "tenantId"
        /\ tenantOf(calls[c].cert.body.der.names) = "t2"
        /\ calls[c].ret.resp.TenantId = "t2"
        /\ <<"cloud.account.id", "t2">> \in AttrSet(calls[c].out.attrs)

\* what Detect returns for the same response when no JPath entry is
\* configured
withoutJPaths(c) == ociDetect(calls[c].ret, <<>>).attrs

\* C26: for every configured list of JPath entries and every response the
\* provider returns without error, each canonical attribute has in
\* Detect's result the value it has when no JPath entry is configured.
C26_JPathKeepsCanonical ==
    \A c \in Calls :
        (detector # Nil /\ detector.variant = "oci" /\ MetadataOK(c)) =>
            \A i \in DOMAIN withoutJPaths(c) :
                <<withoutJPaths(c)[i].k, withoutJPaths(c)[i].v>>
                    \in AttrSet(calls[c].out.attrs)

\* what C26 leaves standing: the canonical attributes whose key does not
\* start with "oci." keep their values under every JPath configuration.
C26_SemconvKeysKept ==
    \A c \in Calls :
        (detector # Nil /\ detector.variant = "oci" /\ MetadataOK(c)) =>
            \A i \in DOMAIN withoutJPaths(c) :
                withoutJPaths(c)[i].k \notin {"oci.compartment.id", "oci.shape"} =>
                    <<withoutJPaths(c)[i].k, withoutJPaths(c)[i].v>>
                        \in AttrSet(calls[c].out.attrs)
====
